---- MODULE Spec2Model ----
(***************************************************************************)
(* cargo-tangle: the tangle engine of src/main.rs.                         *)
(*                                                                         *)
(* Text is modelled character by character: a text is a TLA+ string, and   *)
(* the three regular expressions of the program, str::replace, str::lines  *)
(* and the replacement-string syntax of Regex::replace are operators over  *)
(* the characters of the text.  One run of main over a sequence of         *)
(* documents is the state machine; a document is the sequence of events    *)
(* the Markdown parser produces for it.                                    *)
(***************************************************************************)
EXTENDS Integers, Sequences, FiniteSets, TLC

VARIABLES
    docs,                \* the documents the glob yields, each a sequence of parser events
    di,                  \* index of the document main is at (0 before the first)
    pc,                  \* position of the control flow
    ei,                  \* index of the next parser event of the current document
    in_rust_code_block,  \* tangle: local flag
    code_macros,         \* tangle: the macro table, name -> CodeMacro
    dependency_graph,    \* tangle: set of edges <<uuid, uuid>>
    uuid,                \* tangle: the ordinal counter
    todo,                \* names code_macros.values() has not yet yielded
    output,              \* expand_code_macros: the working text
    steps,               \* number of substitutions done on the current document
    req,                 \* per line of output: indentation units owed to the enclosing invocations
    files,               \* the output files written so far, document index -> text
    panic                \* why the process died, "none" while it lives

vars == <<docs, di, pc, ei, in_rust_code_block, code_macros, dependency_graph,
          uuid, todo, output, steps, req, files, panic>>

----------------------------------------------------------------------------
(* Bounds *)

MaxBlocks == 3      \* blocks (fenced blocks or paragraphs) per document
MaxDocs == 2        \* documents per run
MaxSubst == 6       \* substitutions the model follows in one expansion

----------------------------------------------------------------------------
(* Characters and text primitives *)

Max(a, b) == IF a >= b THEN a ELSE b

Ch(s, i) == IF i >= 1 /\ i <= Len(s) THEN SubSeq(s, i, i) ELSE ""

\* s has the literal pat at position i
At(s, i, pat) ==
    /\ i >= 1
    /\ i + Len(pat) - 1 <= Len(s)
    /\ SubSeq(s, i, i + Len(pat) - 1) = pat

\* the characters of the alphabet that the regex class \s matches
Whitespace == {" ", "\t", "\n", "\r", "\f"}

\* the characters a capture reference of a replacement string may consist of
Digits == {"0", "1", "2", "3", "4", "5", "6", "7", "8", "9"}

CapLetters ==
    Digits \cup {"_"} \cup
    {"a", "b", "c", "d", "e", "f", "g", "h", "i", "j", "k", "l", "m",
     "n", "o", "p", "q", "r", "s", "t", "u", "v", "w", "x", "y", "z"} \cup
    {"A", "B", "C", "D", "E", "F", "G", "H", "I", "J", "K", "L", "M",
     "N", "O", "P", "Q", "R", "S", "T", "U", "V", "W", "X", "Y", "Z"}

\* the least element of a non-empty set of numbers
Least(S) == CHOOSE x \in S : \A y \in S : x <= y

\* first position at or after i whose character is not in set
SkipWhile(s, i, set) ==
    LET stops == {j \in i..Len(s) : Ch(s, j) \notin set}
    IN  IF stops = {} THEN Max(i, Len(s) + 1) ELSE Least(stops)

\* last position at or before i whose character is not in set (0 if none)
SkipBack(s, i, set) ==
    LET stops == {j \in 1..i : Ch(s, j) \notin set}
    IN  IF stops = {} THEN 0 ELSE CHOOSE x \in stops : \A y \in stops : x >= y

\* position of the first character c at or after i, Len(s) + 1 if there is none
FindCh(s, i, c) ==
    LET hits == {j \in i..Len(s) : Ch(s, j) = c}
    IN  IF hits = {} THEN Max(i, Len(s) + 1) ELSE Least(hits)

\* position of the first line feed at or after i, Len(s) + 1 if there is none
LineEnd(s, i) == FindCh(s, i, "\n")

\* str::repeat
RECURSIVE Repeat(_, _)
Repeat(s, n) == IF n <= 0 THEN "" ELSE s \o Repeat(s, n - 1)

\* str::replace: every non-overlapping occurrence of from, left to right
RECURSIVE ReplaceFrom(_, _, _, _)
ReplaceFrom(s, i, from, to) ==
    LET hits == {j \in i..Len(s) : At(s, j, from)}
    IN  IF hits = {} THEN SubSeq(s, i, Len(s))
        ELSE SubSeq(s, i, Least(hits) - 1) \o to
                 \o ReplaceFrom(s, Least(hits) + Len(from), from, to)

StrReplace(s, from, to) == ReplaceFrom(s, 1, from, to)

\* str::lines: split at line feeds, a carriage return before the line feed
\* is dropped, the final line ending is optional
RECURSIVE LinesFrom(_, _)
LinesFrom(s, i) ==
    IF i > Len(s) THEN <<>>
    ELSE LET e == LineEnd(s, i)
             cr == e <= Len(s) /\ e - 1 >= i /\ Ch(s, e - 1) = "\r"
             line == SubSeq(s, i, IF cr THEN e - 2 ELSE e - 1)
         IN  <<line>> \o LinesFrom(s, e + 1)

StrLines(s) == LinesFrom(s, 1)

\* number of line feeds in s from position i on
CountNL(s, i) == Cardinality({j \in i..Len(s) : Ch(s, j) = "\n"})

----------------------------------------------------------------------------
(* The regular expressions *)

NoMatch == [ok |-> FALSE, start |-> 0, end |-> 0, g1 |-> "", g2 |-> ""]

\* MACRO_IDENT_RE = ^//\s*(<<(.+)>>=)\s*\n(.*) without the multi-line flag:
\* anchored at the start of the text.  \s* runs over all the whitespace
\* (line feeds included) up to "<<"; .+ is greedy and stays in the line, so
\* ">>=" is the last thing of that line but whitespace, and the line is
\* terminated.  g1 is the definition "<<name>>=", g2 the name.
MACRO_IDENT_RE(text) ==
    LET k == SkipWhile(text, 3, Whitespace)
        e == LineEnd(text, k + 2)
        p == SkipBack(text, e - 1, Whitespace)
    IN  IF /\ At(text, 1, "//")
           /\ At(text, k, "<<")
           /\ e <= Len(text)
           /\ p - 2 >= k + 3
           /\ At(text, p - 2, ">>=")
        THEN [ok |-> TRUE, start |-> 1, end |-> Len(text) + 1,
              g1 |-> SubSeq(text, k, p), g2 |-> SubSeq(text, k + 2, p - 3)]
        ELSE NoMatch

\* ^( *)//\s*<<(.+)>>\n tried at the line start i: the leading spaces, "//",
\* all the whitespace that follows (line feeds included), "<<", a name that
\* is not empty and stays in the line, and ">>" right before the line feed.
\* g1 is the run of leading spaces, g2 the name; end is the position after
\* the line feed.
macro_re_at(s, i) ==
    LET j == SkipWhile(s, i, {" "})
        k == SkipWhile(s, j + 2, Whitespace)
        e == LineEnd(s, k + 2)
    IN  IF /\ At(s, j, "//")
           /\ At(s, k, "<<")
           /\ e <= Len(s)
           /\ e - 2 >= k + 3
           /\ At(s, e - 2, ">>")
        THEN [ok |-> TRUE, start |-> i, end |-> e + 1,
              g1 |-> SubSeq(s, i, j - 1), g2 |-> SubSeq(s, k + 2, e - 3)]
        ELSE NoMatch

\* the leftmost match of the multi-line regex at or after the line start i
RECURSIVE macro_re_captures(_, _)
macro_re_captures(s, i) ==
    IF i > Len(s) THEN NoMatch
    ELSE LET m == macro_re_at(s, i)
         IN  IF m.ok THEN m ELSE macro_re_captures(s, LineEnd(s, i) + 1)

\* captures_iter: the names of the successive non-overlapping matches
RECURSIVE macro_re_captures_iter(_, _)
macro_re_captures_iter(s, i) ==
    LET m == macro_re_captures(s, i)
    IN  IF m.ok THEN <<m.g2>> \o macro_re_captures_iter(s, m.end) ELSE <<>>

----------------------------------------------------------------------------
(* CodeMacro and the helpers of the expander *)

ParseError == [ok |-> FALSE, name |-> "", content |-> "", uuid |-> 0]

\* the first occurrence of pat in s replaced by rep
ReplaceFirst(s, pat, rep) ==
    LET hits == {j \in 1..Len(s) : At(s, j, pat)}
    IN  IF hits = {} THEN s
        ELSE SubSeq(s, 1, Least(hits) - 1) \o rep
                 \o SubSeq(s, Least(hits) + Len(pat), Len(s))

\* the conversion as it would be if only the header line were edited
CodeMacro_header_only(text) ==
    LET captures == MACRO_IDENT_RE(text)
    IN  IF captures.ok
        THEN [ok |-> TRUE, name |-> captures.g2,
              content |-> ReplaceFirst(text, captures.g1, captures.g2),
              uuid |-> 0]
        ELSE ParseError

\* impl TryFrom<String> for CodeMacro: the name is capture 2, the content is
\* the text with every occurrence of capture 1 replaced by the name
CodeMacro_try_from(text) ==
    LET captures == MACRO_IDENT_RE(text)
    IN  IF captures.ok
        THEN [ok |-> TRUE, name |-> captures.g2,
              content |-> StrReplace(text, captures.g1, captures.g2),
              uuid |-> 0]
        ELSE ParseError

RECURSIVE IndentLines(_, _, _)
IndentLines(lines, i, indents) ==
    IF i > Len(lines) THEN ""
    ELSE Repeat("    ", indents) \o lines[i] \o "\n" \o IndentLines(lines, i + 1, indents)

prepend_indents(text, indents) == IndentLines(StrLines(text), 1, indents)

\* the capture group a reference names: a decimal number is that group,
\* any other name is a named group, of which the regex has none
CapGroup(name) ==
    LET rest == SubSeq(name, SkipWhile(name, 1, {"0"}), Len(name))
    IN  IF name = "" \/ SkipWhile(name, 1, Digits) <= Len(name) THEN 3
        ELSE IF rest = "" THEN 0
        ELSE IF rest = "1" THEN 1
        ELSE IF rest = "2" THEN 2
        ELSE 3

\* impl Replacer for String: the replacement is interpolated, "$$" is a
\* dollar sign, "$name" and "${name}" are the capture group of that name
\* (empty when there is no such group), any other "$" stands for itself
RECURSIVE Interpolate(_, _, _)
Interpolate(rep, i, caps) ==
    LET d == FindCh(rep, i, "$")
    IN
    IF d > Len(rep) THEN SubSeq(rep, i, Len(rep))
    ELSE SubSeq(rep, i, d - 1) \o
        (IF Ch(rep, d + 1) = "$" THEN "$" \o Interpolate(rep, d + 2, caps)
         ELSE IF Ch(rep, d + 1) = "{"
              THEN LET close == FindCh(rep, d + 2, "}")
                   IN  IF close <= Len(rep)
                       THEN LET group == CapGroup(SubSeq(rep, d + 2, close - 1))
                            IN  (IF group <= 2 THEN caps[group + 1] ELSE "")
                                \o Interpolate(rep, close + 1, caps)
                       ELSE "$" \o Interpolate(rep, d + 1, caps)
         ELSE LET cap_end == SkipWhile(rep, d + 1, CapLetters)
              IN  IF cap_end = d + 1 THEN "$" \o Interpolate(rep, d + 1, caps)
                  ELSE LET group == CapGroup(SubSeq(rep, d + 1, cap_end - 1))
                       IN  (IF group <= 2 THEN caps[group + 1] ELSE "")
                           \o Interpolate(rep, cap_end, caps))

\* Regex::replace: the first match is replaced by the interpolated replacement
regex_replace(s, m, replacement) ==
    SubSeq(s, 1, m.start - 1)
        \o Interpolate(replacement, 1, <<SubSeq(s, m.start, m.end - 1), m.g1, m.g2>>)
        \o SubSeq(s, m.end, Len(s))

\* petgraph::algo::is_cyclic_directed on the edge set of the DiGraphMap
RECURSIVE Reach(_, _)
Reach(g, S) ==
    LET N == S \cup {e[2] : e \in {x \in g : x[1] \in S}}
    IN  IF N = S THEN S ELSE Reach(g, N)

is_cyclic_directed(g) == \E e \in g : e[1] \in Reach(g, {e[2]})

----------------------------------------------------------------------------
(* Documents: the events pulldown_cmark's Parser yields *)

Ev(kind, arg) == [kind |-> kind, arg |-> arg]

\* a fenced code block with the info string tag and one text segment
Fenced(tag, text) == <<Ev("Start", tag), Ev("Text", text), Ev("End", tag)>>

\* a paragraph of prose
Paragraph(text) == <<Ev("Other", "Start(Paragraph)"), Ev("Text", text), Ev("Other", "End(Paragraph)")>>

RootA     == "// <<*>>=\n    // <<a>>\nend\n"
RootOpen  == "// <<*>>=\n      // <<a>>\n// <<b>>"
AInvB     == "// <<a>>=\nx\n  // <<b>>\n"
APlain    == "// <<a>>=\nsecond\n"
ALoop     == "// <<a>>=\n$0\n"
AOpen     == "// <<a>>=\n// <<zz>>"
BInvA     == "// <<b>>=\n// <<a>>\n"
BOpenSelf == "// <<b>>=\ny\n// <<b>>"
BDollar   == "// <<b>>=\np${0}q\n"
BUndef    == "// <<b>>=\n// <<zz>>\n"
NotAMacro == "let x = 1;\n"
OddName   == "// <<a>>b>>=\n<<a>>b>>=\n"

\* the blocks the documents of the family are made of
Blocks ==
    << Fenced("rust", RootA), Fenced("rust", RootOpen), Fenced("rust", AInvB),
       Fenced("rust", APlain), Fenced("rust", ALoop), Fenced("rust", AOpen),
       Fenced("rust", BInvA), Fenced("rust", BOpenSelf), Fenced("rust", BDollar) >>

\* the sequences of at most n block numbers from lo on, in ascending order
RECURSIVE Ascending(_, _)
Ascending(n, lo) ==
    IF n = 0 THEN {<<>>}
    ELSE {<<>>} \cup UNION {{<<i>> \o t : t \in Ascending(n - 1, i)} : i \in lo..Len(Blocks)}

RECURSIVE Concat(_, _)
Concat(q, i) == IF i > Len(q) THEN <<>> ELSE Blocks[q[i]] \o Concat(q, i + 1)

\* the family of documents: at most MaxBlocks blocks, in ascending order
Docs == {Concat(q, 1) : q \in Ascending(MaxBlocks, 1)}

C9Root == "// <<*>>=\nfn main() {\n    // <<body>>\n}\n"
C9Body == "// <<body>>=\nprintln!(\"hi\");\n"
C9Doc  == Fenced("rust", C9Root) \o Fenced("rust", C9Body)

\* documents with prose, blocks of another language, a block that defines
\* nothing, an undefined name, a cycle next to an undefined name, the root
\* after the fragments it invokes, a name with delimiters in it
ExtraDocs ==
    { C9Doc,
      Fenced("python", RootA) \o Fenced("rust", APlain) \o Paragraph(AInvB),
      Paragraph(APlain) \o Fenced("rust", RootA) \o Fenced("python", APlain),
      Fenced("rust", NotAMacro) \o Fenced("rust", RootA) \o Fenced("rust", APlain),
      Fenced("rust", RootA) \o Fenced("rust", AInvB) \o Fenced("rust", BUndef),
      Fenced("rust", C9Root) \o Fenced("rust", AInvB) \o Fenced("rust", BInvA),
      Fenced("rust", BDollar) \o Fenced("rust", APlain) \o Fenced("rust", AInvB)
          \o Fenced("rust", RootA),
      Fenced("rust", BInvA) \o Fenced("rust", AInvB) \o Fenced("rust", RootA),
      Fenced("rust", OddName) }

\* the documents of the runs over several documents
SmallDocs ==
    { Fenced("rust", RootA) \o Fenced("rust", APlain),     \* expands
      Fenced("rust", APlain),                              \* no root
      Fenced("rust", RootA) \o Fenced("rust", BUndef),     \* undefined names
      Fenced("rust", BInvA) \o Fenced("rust", AInvB),      \* a cycle
      Fenced("rust", RootOpen) }                           \* open last line

RECURSIVE SeqsUpTo(_, _)
SeqsUpTo(S, n) ==
    IF n = 0 THEN {<<>>}
    ELSE {<<>>} \cup {<<x>> \o t : x \in S, t \in SeqsUpTo(S, n - 1)}

\* the runs: every document alone, and every sequence of small documents
Runs == {<<d>> : d \in Docs \cup ExtraDocs} \cup SeqsUpTo(SmallDocs, MaxDocs)

----------------------------------------------------------------------------
(* The state machine: main, tangle and expand_code_macros *)

doc == docs[di]

Init ==
    /\ docs \in Runs
    /\ di = 0
    /\ pc = "main"
    /\ ei = 1
    /\ in_rust_code_block = FALSE
    /\ code_macros = <<>>
    /\ dependency_graph = {}
    /\ uuid = 0
    /\ todo = {}
    /\ output = ""
    /\ steps = 0
    /\ req = <<>>
    /\ files = <<>>
    /\ panic = "none"

\* the next entry of the glob as it would be if the table, the graph and the
\* counter were shared by the documents of a run
MainNextShared ==
    /\ pc = "main"
    /\ di < Len(docs)
    /\ di' = di + 1
    /\ pc' = "extract"
    /\ ei' = 1
    /\ in_rust_code_block' = FALSE
    /\ todo' = {}
    /\ output' = ""
    /\ steps' = 0
    /\ req' = <<>>
    /\ UNCHANGED <<docs, files, panic, code_macros, dependency_graph, uuid>>

\* main: the next entry of the glob; tangle starts with fresh locals
MainNext ==
    /\ pc = "main"
    /\ di < Len(docs)
    /\ di' = di + 1
    /\ pc' = "extract"
    /\ ei' = 1
    /\ in_rust_code_block' = FALSE
    /\ code_macros' = <<>>
    /\ dependency_graph' = {}
    /\ uuid' = 0
    /\ todo' = {}
    /\ output' = ""
    /\ steps' = 0
    /\ req' = <<>>
    /\ UNCHANGED <<docs, files, panic>>

\* main: the glob is exhausted
MainExit ==
    /\ pc = "main"
    /\ di = Len(docs)
    /\ pc' = "exit"
    /\ UNCHANGED <<docs, di, ei, in_rust_code_block, code_macros, dependency_graph,
                   uuid, todo, output, steps, req, files, panic>>

AtEvent == pc = "extract" /\ ei <= Len(doc)

ExtractFrame == UNCHANGED <<docs, di, pc, dependency_graph, todo, output, steps, req, files, panic>>

\* the patterns of the first and the third match arm
StartsAnyBlock(event) == event.kind = "Start"

StartsRustBlock(event) == event.kind = "Start" /\ event.arg = "rust"

EndsRustBlock(event) == event.kind = "End" /\ event.arg = "rust"

\* Event::Start(CodeBlock(Fenced(Borrowed("rust"))))
EventStartRust ==
    /\ AtEvent
    /\ StartsRustBlock(doc[ei])
    /\ in_rust_code_block' = TRUE
    /\ ei' = ei + 1
    /\ UNCHANGED <<code_macros, uuid>>
    /\ ExtractFrame

\* Event::End(CodeBlock(Fenced(Borrowed("rust"))))
EventEndRust ==
    /\ AtEvent
    /\ EndsRustBlock(doc[ei])
    /\ in_rust_code_block' = FALSE
    /\ ei' = ei + 1
    /\ UNCHANGED <<code_macros, uuid>>
    /\ ExtractFrame

\* _ => ()
EventOther ==
    /\ AtEvent
    /\ \/ doc[ei].kind = "Other"
       \/ doc[ei].kind \in {"Start", "End"} /\ doc[ei].arg # "rust"
    /\ ei' = ei + 1
    /\ UNCHANGED <<in_rust_code_block, code_macros, uuid>>
    /\ ExtractFrame

\* Event::Text outside a rust block: continue
EventTextOutside ==
    /\ AtEvent
    /\ doc[ei].kind = "Text"
    /\ ~in_rust_code_block
    /\ ei' = ei + 1
    /\ UNCHANGED <<in_rust_code_block, code_macros, uuid>>
    /\ ExtractFrame

\* Event::Text in a rust block, CodeMacro::try_from fails
EventTextNoMacro ==
    /\ AtEvent
    /\ doc[ei].kind = "Text"
    /\ in_rust_code_block
    /\ ~CodeMacro_try_from(doc[ei].arg).ok
    /\ ei' = ei + 1
    /\ UNCHANGED <<in_rust_code_block, code_macros, uuid>>
    /\ ExtractFrame

\* the insertion as it would be if the last definition won
TableInsertLast(table, new_macro) ==
    (new_macro.name :> new_macro) @@ table

\* the table after the insertion of new_macro: the first definition stays
TableInsert(table, new_macro) ==
    IF new_macro.name \in DOMAIN table
    THEN table
    ELSE (new_macro.name :> new_macro) @@ table

\* the definition event as it would be if the counter were not incremented
EventTextMacroSameId ==
    /\ AtEvent
    /\ doc[ei].kind = "Text"
    /\ in_rust_code_block
    /\ LET parsed == CodeMacro_try_from(doc[ei].arg)
           new_macro == [name |-> parsed.name, content |-> parsed.content, uuid |-> uuid]
       IN  /\ parsed.ok
           /\ code_macros' = TableInsert(code_macros, new_macro)
    /\ ei' = ei + 1
    /\ UNCHANGED <<in_rust_code_block, uuid>>
    /\ ExtractFrame

\* Event::Text in a rust block, CodeMacro::try_from succeeds: the macro takes
\* the next uuid and is inserted unless its name is taken (a warning then)
EventTextMacro ==
    /\ AtEvent
    /\ doc[ei].kind = "Text"
    /\ in_rust_code_block
    /\ LET parsed == CodeMacro_try_from(doc[ei].arg)
           new_macro == [name |-> parsed.name, content |-> parsed.content, uuid |-> uuid]
       IN  /\ parsed.ok
           /\ code_macros' = TableInsert(code_macros, new_macro)
    /\ uuid' = uuid + 1
    /\ ei' = ei + 1
    /\ UNCHANGED in_rust_code_block
    /\ ExtractFrame

\* the parser is exhausted: the loop over code_macros.values() starts
ExtractDone ==
    /\ pc = "extract"
    /\ ei > Len(doc)
    /\ pc' = "graph"
    /\ todo' = DOMAIN code_macros
    /\ UNCHANGED <<docs, di, ei, in_rust_code_block, code_macros, dependency_graph,
                   uuid, output, steps, req, files, panic>>

\* the edges the inner loop adds for the invocations names[i..] of the macro
\* definition, up to the first name that is not in the table
RECURSIVE EdgesOf(_, _, _, _)
EdgesOf(table, definition, names, i) ==
    IF i > Len(names) \/ names[i] \notin DOMAIN table THEN {}
    ELSE {<<table[definition].uuid, table[names[i]].uuid>>}
             \cup EdgesOf(table, definition, names, i + 1)

Invocations(table, definition) == macro_re_captures_iter(table[definition].content, 1)

Resolved(table, definition) ==
    \A i \in 1..Len(Invocations(table, definition)) :
        Invocations(table, definition)[i] \in DOMAIN table

GraphFrame == UNCHANGED <<docs, di, ei, in_rust_code_block, code_macros, uuid,
                          output, steps, req, files>>

\* one macro of code_macros.values(), in the order the HashMap yields them:
\* all its invocations resolve and become edges
GraphVisit ==
    /\ pc = "graph"
    /\ \E definition \in todo :
        /\ Resolved(code_macros, definition)
        /\ dependency_graph' = dependency_graph \cup
               EdgesOf(code_macros, definition, Invocations(code_macros, definition), 1)
        /\ todo' = todo \ {definition}
    /\ UNCHANGED <<pc, panic>>
    /\ GraphFrame

\* code_macros.get(macro_invokation_name).unwrap() on a name that is not in
\* the table: the process panics
GraphUnresolved ==
    /\ pc = "graph"
    /\ \E definition \in todo :
        /\ ~Resolved(code_macros, definition)
        /\ dependency_graph' = dependency_graph \cup
               EdgesOf(code_macros, definition, Invocations(code_macros, definition), 1)
        /\ todo' = todo \ {definition}
    /\ pc' = "panicked"
    /\ panic' = "UndefinedFragment"
    /\ GraphFrame

\* the cycle check as it would be if it ran inside the loop over the table
CycleFoundEarly ==
    /\ pc = "graph"
    /\ is_cyclic_directed(dependency_graph)
    /\ pc' = "panicked"
    /\ panic' = "CyclicInclusion"
    /\ UNCHANGED <<dependency_graph, todo>>
    /\ GraphFrame

\* is_cyclic_directed: tangle returns Err(CyclicInclusion), which main unwraps
CycleFound ==
    /\ pc = "graph"
    /\ todo = {}
    /\ is_cyclic_directed(dependency_graph)
    /\ pc' = "panicked"
    /\ panic' = "CyclicInclusion"
    /\ UNCHANGED <<dependency_graph, todo>>
    /\ GraphFrame

\* the end of graph building as it would be without the cycle check
CycleFreeUnchecked ==
    /\ pc = "graph"
    /\ todo = {}
    /\ pc' = "root"
    /\ UNCHANGED <<dependency_graph, todo, panic>>
    /\ GraphFrame

\* the graph has no cycle: tangle goes on to the output path and the expander
CycleFree ==
    /\ pc = "graph"
    /\ todo = {}
    /\ ~is_cyclic_directed(dependency_graph)
    /\ pc' = "root"
    /\ UNCHANGED <<dependency_graph, todo, panic>>
    /\ GraphFrame

\* the number of lines of a text, an unterminated last line included
NumLines(s) == Len(StrLines(s))

\* the indentation as it would be if the leading spaces were not counted
IndentsNone(m) == 0

\* let indents = captures.get(1).unwrap().as_str().len() / 4
Indents(m) == Len(m.g1) \div 4

\* the replacement of one iteration of the while loop, before interpolation
Replacement(table, m) == prepend_indents(table[m.g2].content, Indents(m))

\* the working text after one iteration of the while loop
Substitute(text, table, m) == regex_replace(text, m, Replacement(table, m))

\* the indentation units owed per line after the substitution of m: the
\* inserted lines owe the units of the invocation line, and what that line owed
ReqAfter(text, table, m) ==
    LET line == CountNL(SubSeq(text, 1, m.start - 1), 1) + 1
        gone == CountNL(SubSeq(text, m.start, m.end - 1), 1)
        next == Substitute(text, table, m)
        came == NumLines(next) - (NumLines(text) - gone)
    IN  SubSeq(req, 1, line - 1)
            \o [i \in 1..came |-> Max(Indents(m), req[line])]
            \o SubSeq(req, line + gone, Len(req))

ExpandFrame == UNCHANGED <<docs, di, ei, in_rust_code_block, code_macros,
                           dependency_graph, uuid, todo, files>>

\* code_macros.get("*").expect("No root macro found").content.clone()
ExpandRoot ==
    /\ pc = "root"
    /\ "*" \in DOMAIN code_macros
    /\ output' = code_macros["*"].content
    /\ req' = [i \in 1..NumLines(code_macros["*"].content) |-> 0]
    /\ pc' = "expand"
    /\ UNCHANGED <<steps, panic>>
    /\ ExpandFrame

\* the root lookup as it would be if a missing root were an empty text
ExpandRootLenient ==
    /\ pc = "root"
    /\ "*" \notin DOMAIN code_macros
    /\ pc' = "expand"
    /\ output' = ""
    /\ UNCHANGED <<steps, req, panic>>
    /\ ExpandFrame

ExpandRootMissing ==
    /\ pc = "root"
    /\ "*" \notin DOMAIN code_macros
    /\ pc' = "panicked"
    /\ panic' = "RootMissing"
    /\ UNCHANGED <<output, steps, req>>
    /\ ExpandFrame

\* one iteration of the while loop: the first match is replaced by the
\* indented content of the macro it names
ExpandSubstitute ==
    /\ pc = "expand"
    /\ steps < MaxSubst
    /\ LET m == macro_re_captures(output, 1)
       IN  /\ m.ok
           /\ m.g2 \in DOMAIN code_macros
           /\ output' = Substitute(output, code_macros, m)
           /\ req' = ReqAfter(output, code_macros, m)
    /\ steps' = steps + 1
    /\ UNCHANGED <<pc, panic>>
    /\ ExpandFrame

\* .expect("A macro was used, but not defined.")
ExpandUndefined ==
    /\ pc = "expand"
    /\ LET m == macro_re_captures(output, 1)
       IN  m.ok /\ m.g2 \notin DOMAIN code_macros
    /\ pc' = "panicked"
    /\ panic' = "UsedNotDefined"
    /\ UNCHANGED <<output, steps, req>>
    /\ ExpandFrame

\* the regex matches no more: expand_code_macros returns output
ExpandDone ==
    /\ pc = "expand"
    /\ ~macro_re_captures(output, 1).ok
    /\ pc' = "write"
    /\ UNCHANGED <<output, steps, req, panic>>
    /\ ExpandFrame

\* fs::write(output_path, ...); tangle returns Ok(())
WriteOutput ==
    /\ pc = "write"
    /\ files' = (di :> output) @@ files
    /\ pc' = "main"
    /\ UNCHANGED <<docs, di, ei, in_rust_code_block, code_macros, dependency_graph,
                   uuid, todo, output, steps, req, panic>>

Next ==
    \/ MainNext
    \/ MainExit
    \/ EventStartRust
    \/ EventEndRust
    \/ EventOther
    \/ EventTextOutside
    \/ EventTextNoMacro
    \/ EventTextMacro
    \/ ExtractDone
    \/ GraphVisit
    \/ GraphUnresolved
    \/ CycleFound
    \/ CycleFree
    \/ ExpandRoot
    \/ ExpandRootMissing
    \/ ExpandSubstitute
    \/ ExpandUndefined
    \/ ExpandDone
    \/ WriteOutput

Spec == Init /\ [][Next]_vars

----------------------------------------------------------------------------
(* tangle as a function of the document *)

\* the macro table the loop over the parser events builds
RECURSIVE ExtractTable(_, _, _, _, _)
ExtractTable(events, i, flag, table, id) ==
    IF i > Len(events) THEN table
    ELSE LET parsed == CodeMacro_try_from(events[i].arg)
         IN  IF StartsRustBlock(events[i]) THEN ExtractTable(events, i + 1, TRUE, table, id)
             ELSE IF EndsRustBlock(events[i]) THEN ExtractTable(events, i + 1, FALSE, table, id)
             ELSE IF events[i].kind = "Text" /\ flag /\ parsed.ok
                  THEN ExtractTable(events, i + 1, flag,
                           TableInsert(table, [name |-> parsed.name, content |-> parsed.content,
                                               uuid |-> id]), id + 1)
             ELSE ExtractTable(events, i + 1, flag, table, id)

\* the while loop of expand_code_macros, followed for at most fuel rounds
RECURSIVE ExpandLoop(_, _, _)
ExpandLoop(text, table, fuel) ==
    LET m == macro_re_captures(text, 1)
    IN  IF ~m.ok THEN [kind |-> "Written", text |-> text]
        ELSE IF m.g2 \notin DOMAIN table THEN [kind |-> "UsedNotDefined", text |-> ""]
        ELSE IF fuel = 0 THEN [kind |-> "Running", text |-> text]
        ELSE ExpandLoop(Substitute(text, table, m), table, fuel - 1)

\* how tangle ends on a document: the panic, or the text written
Outcome(events) ==
    LET table == ExtractTable(events, 1, FALSE, <<>>, 0)
        graph == UNION {EdgesOf(table, n, Invocations(table, n), 1) : n \in DOMAIN table}
    IN  IF \E n \in DOMAIN table : ~Resolved(table, n)
        THEN [kind |-> "UndefinedFragment", text |-> ""]
        ELSE IF is_cyclic_directed(graph) THEN [kind |-> "CyclicInclusion", text |-> ""]
        ELSE IF "*" \notin DOMAIN table THEN [kind |-> "RootMissing", text |-> ""]
        ELSE ExpandLoop(table["*"].content, table, MaxSubst)

\* how the run has ended, or stands, on the current document
StateOutcome ==
    IF pc = "panicked" THEN [kind |-> panic, text |-> ""]
    ELSE IF pc \in {"main", "exit"} /\ di \in DOMAIN files
         THEN [kind |-> "Written", text |-> files[di]]
    ELSE [kind |-> "Running", text |-> output]

----------------------------------------------------------------------------
(* The vocabulary of the specification *)

\* an invocation-marker line: optional leading spaces, the comment marker,
\* a name in double angle brackets, no definition marker; line is the line
\* without its terminator
IsMarkerLine(line) ==
    LET j == SkipWhile(line, 1, {" "})
        k == SkipWhile(line, j + 2, {" ", "\t"})
    IN  /\ At(line, j, "//")
        /\ At(line, k, "<<")
        /\ Len(line) - 1 >= k + 3
        /\ At(line, Len(line) - 1, ">>")

MarkerName(line) ==
    LET j == SkipWhile(line, 1, {" "})
        k == SkipWhile(line, j + 2, {" ", "\t"})
    IN  SubSeq(line, k + 2, Len(line) - 2)

\* the names the marker lines of a text invoke, the last line included
MarkerNames(text) ==
    {MarkerName(StrLines(text)[i]) : i \in {j \in 1..NumLines(text) : IsMarkerLine(StrLines(text)[j])}}

\* some marker line of some fragment names a fragment that is not defined
HasUndefinedInvocation(table) ==
    \E n \in DOMAIN table : \E x \in MarkerNames(table[n].content) : x \notin DOMAIN table

\* the fragments a fragment invokes, and those it reaches
RECURSIVE Invoked(_, _)
Invoked(table, S) ==
    LET N == S \cup UNION {MarkerNames(table[n].content) \cap DOMAIN table : n \in S}
    IN  IF N = S THEN S ELSE Invoked(table, N)

HasInvocationCycle(table) ==
    \E n \in DOMAIN table :
        \E x \in MarkerNames(table[n].content) \cap DOMAIN table : n \in Invoked(table, {x})

\* the table of the current document is complete
Extracted == pc \in {"graph", "root", "expand", "write", "panicked"}

\* the output file of the current document exists
Written == di \in DOMAIN files

----------------------------------------------------------------------------
(* Claims *)

\* the names the marker lines of a text invoke, line by line
RECURSIVE MarkerSeq(_, _)
MarkerSeq(lines, i) ==
    IF i > Len(lines) THEN <<>>
    ELSE (IF IsMarkerLine(lines[i]) THEN <<MarkerName(lines[i])>> ELSE <<>>)
             \o MarkerSeq(lines, i + 1)

\* the number of invocations on the walks of the reference graph that start
\* in fragment n, which is the number of substitutions its expansion takes;
\* defined when every invocation resolves and the graph is acyclic
RECURSIVE Walks(_, _)
RECURSIVE WalksOf(_, _, _)
WalksOf(table, names, i) ==
    IF i > Len(names) THEN 0
    ELSE 1 + Walks(table, names[i]) + WalksOf(table, names, i + 1)

Walks(table, n) == WalksOf(table, MarkerSeq(StrLines(table[n].content), 1), 1)

\* C1: for a document in which every invocation resolves, the reference
\* graph is acyclic and the root fragment exists, the loop of the expander
\* ends after finitely many substitutions: the substitutions follow the
\* walks of the acyclic graph from the root, one per invocation met, so
\* there are never more of them than invocations on these walks.
C1_ExpansionTerminates ==
    (/\ pc \in {"expand", "write"}
     /\ "*" \in DOMAIN code_macros
     /\ ~HasUndefinedInvocation(code_macros)
     /\ ~HasInvocationCycle(code_macros)
     /\ ~is_cyclic_directed(dependency_graph))
        => steps <= Walks(code_macros, "*")

\* C2: no line of a written output, the last line included, is an
\* invocation marker.
C2_NoMarkerWritten ==
    \A d \in DOMAIN files :
        \A i \in 1..NumLines(files[d]) : ~IsMarkerLine(StrLines(files[d])[i])

\* C3: a document whose fragments contain a directed invocation cycle is
\* rejected with CyclicInclusion and no output file is written for it.
C3_CycleRejected ==
    (Extracted /\ HasInvocationCycle(code_macros)) =>
        /\ ~Written
        /\ pc \notin {"expand", "write"}
        /\ pc = "panicked" => panic = "CyclicInclusion"

\* C4: a document in which some line of some fragment body invokes a name
\* that is not in the macro table ends in UndefinedFragment and no output
\* file is written for it.
C4_UndefinedRejected ==
    (Extracted /\ HasUndefinedInvocation(code_macros)) =>
        /\ ~Written
        /\ pc \notin {"expand", "write"}
        /\ pc = "panicked" => panic = "UndefinedFragment"

\* the graph builder meets no name that is not in the table, and the graph
\* it builds has no cycle
BuilderAccepts(table) ==
    /\ \A n \in DOMAIN table : Resolved(table, n)
    /\ ~is_cyclic_directed(UNION {EdgesOf(table, n, Invocations(table, n), 1) : n \in DOMAIN table})

\* C5: a document that defines no fragment named "*", has no undefined
\* invocation and no cycle (among its marker lines, and among the
\* invocations the graph builder recognises) ends in RootMissing, and no
\* output file is written for it.
C5_RootMissing ==
    (/\ Extracted
     /\ "*" \notin DOMAIN code_macros
     /\ ~HasUndefinedInvocation(code_macros)
     /\ ~HasInvocationCycle(code_macros)
     /\ BuilderAccepts(code_macros)) =>
        /\ ~Written
        /\ pc \notin {"expand", "write"}
        /\ pc = "panicked" => panic = "RootMissing"

\* the case of C5 has happened: a document without root, the empty
\* document or one with fragments, ended in RootMissing
C5_Witness ==
    /\ pc = "panicked"
    /\ panic = "RootMissing"
    /\ "*" \notin DOMAIN code_macros
    /\ code_macros # <<>>
    /\ ~HasUndefinedInvocation(code_macros)
    /\ ~HasInvocationCycle(code_macros)

\* C6: after a document of a run fails fatally the later documents are
\* still processed: the run never ends on a failure while documents remain.
C6_RunContinues == pc = "panicked" => di = Len(docs)

\* the processing of the current document has ended, or the expander is
\* still looping after MaxSubst substitutions
Ended ==
    \/ pc = "panicked"
    \/ pc \in {"main", "exit"} /\ di \in DOMAIN files
    \/ pc = "expand" /\ steps = MaxSubst /\ macro_re_captures(output, 1).ok
           /\ macro_re_captures(output, 1).g2 \in DOMAIN code_macros

\* event i of document d lies between the start and the end of a fenced
\* block tagged "rust"
InDesignatedBlock(d, i) ==
    \E j \in 1..(i - 1) :
        /\ d[j] = Ev("Start", "rust")
        /\ \A k \in (j + 1)..(i - 1) : d[k] # Ev("End", "rust")

\* the texts a redefinition is taken from
RedefTexts == {RootOpen, ALoop, BOpenSelf}

\* the documents obtained from d by adding one more definition of a name,
\* as a block of its own, somewhere after a definition of that name
Redefinitions(d) ==
    {SubSeq(d, 1, q) \o Fenced("rust", t) \o SubSeq(d, q + 1, Len(d)) :
        <<q, t>> \in {x \in (1..Len(d)) \X RedefTexts :
            /\ d[x[1]].kind = "End" \/ d[x[1]].arg = "End(Paragraph)"
            /\ \E p \in 1..(x[1] - 1) :
                /\ d[p].kind = "Text"
                /\ InDesignatedBlock(d, p)
                /\ CodeMacro_try_from(d[p].arg).ok
                /\ CodeMacro_try_from(d[p].arg).name = CodeMacro_try_from(x[2]).name}}

\* C7: a document with one more definition of an already defined name,
\* added after the first definition, has the same result as the document
\* without it: the same output text or the same failure.
C7_RedefinitionIgnored ==
    Ended => \A e \in Redefinitions(doc) : Outcome(e) = StateOutcome

\* the case of C7 has happened: the output of a document is written, and
\* so is that of the document with one of its fragments defined once more
C7_Witness ==
    /\ pc = "main"
    /\ Written
    /\ \E e \in Redefinitions(doc) : Outcome(e).kind = "Written"

\* the leading spaces of a line
LeadingSpaces(line) == SkipWhile(line, 1, {" "}) - 1

\* C8: in the final output every line that comes from the body of a
\* fragment invoked on a line with N indentation units, or from the
\* invocations inside that body, starts with at least N times 4 spaces.
C8_IndentationAccumulates ==
    pc = "write" =>
        \A i \in 1..NumLines(output) : LeadingSpaces(StrLines(output)[i]) >= 4 * req[i]

\* C9 as stated: the example document expands to exactly the three lines
\* 'fn main() {', '    println!("hi");', '}'.
C9_ThreeLines ==
    (docs = <<C9Doc>> /\ Written) => files[1] = "fn main() {\n    println!(\"hi\");\n}\n"

\* C9, amended: the example document expands to exactly five lines, the
\* three lines of the example and, ahead of the lines of each fragment, the
\* comment line with the bare name that the header of the fragment becomes.
C9_FiveLines ==
    docs = <<C9Doc>> =>
        /\ pc # "panicked"
        /\ Written => files[1] = "// *\nfn main() {\n    // body\n    println!(\"hi\");\n}\n"

C9_Witness == docs = <<C9Doc>> /\ Written

\* C10: a text segment becomes a fragment of the macro table only if it
\* was emitted between the start and the end of a fenced block tagged
\* "rust"; text in prose or in blocks with another tag never changes the
\* table.
C10_OnlyRustText ==
    [][(pc = "extract" /\ code_macros' # code_macros) =>
           /\ ei <= Len(doc)
           /\ doc[ei].kind = "Text"
           /\ InDesignatedBlock(doc, ei)]_vars

\* the case of C10 has happened: the document had a definition in prose or
\* in a block with another tag, and the table holds fragments but not that
C10_Witness ==
    /\ pc = "graph"
    /\ code_macros # <<>>
    /\ \E i \in 1..Len(doc) :
        /\ doc[i].kind = "Text"
        /\ ~InDesignatedBlock(doc, i)
        /\ CodeMacro_try_from(doc[i].arg).ok
        /\ CodeMacro_try_from(doc[i].arg).name \notin DOMAIN code_macros

\* the number of text segments of document d
TextCount(d) == Cardinality({i \in 1..Len(d) : d[i].kind = "Text"})

\* document d has a text segment in a designated block that defines
\* fragment n with the body content
DefinedIn(d, n, content) ==
    \E i \in 1..Len(d) :
        /\ d[i].kind = "Text"
        /\ InDesignatedBlock(d, i)
        /\ MACRO_IDENT_RE(d[i].arg).ok
        /\ MACRO_IDENT_RE(d[i].arg).g2 = n
        /\ StrReplace(d[i].arg, MACRO_IDENT_RE(d[i].arg).g1, n) = content

\* C11: in a run over several documents the macro table and the reference
\* graph are empty and the ordinal counter is zero when the first event of a
\* document is processed, and at every later point the table holds only
\* fragments that the current document defines, the graph only ordinals of
\* these fragments, so that no lookup, edge or substitution ever involves a
\* fragment of another document.
C11_FreshPerDocument ==
    di >= 1 =>
        /\ (pc = "extract" /\ ei = 1) =>
               code_macros = <<>> /\ dependency_graph = {} /\ uuid = 0
        /\ uuid <= TextCount(doc)
        /\ \A n \in DOMAIN code_macros :
               /\ DefinedIn(doc, n, code_macros[n].content)
               /\ code_macros[n].uuid < uuid
        /\ \A e \in dependency_graph :
               {e[1], e[2]} \subseteq {code_macros[n].uuid : n \in DOMAIN code_macros}

\* the case of C11 has happened: the first document of a run defined a root
\* and was written, the second defines fragments but no root, and the lookup
\* of the root failed in it
C11_Witness ==
    /\ di = 2
    /\ 1 \in DOMAIN files
    /\ pc = "panicked"
    /\ panic = "RootMissing"
    /\ code_macros # <<>>
    /\ DefinedIn(docs[1], "*", "// *\n    // <<a>>\nend\n")

\* the reference graph of a table
GraphOf(table) ==
    UNION {EdgesOf(table, n, Invocations(table, n), 1) : n \in DOMAIN table}

\* extraction and graph building of the current document are complete and
\* the graph has no cycle
StagesDone ==
    /\ ei > Len(doc)
    /\ code_macros = ExtractTable(doc, 1, FALSE, <<>>, 0)
    /\ todo = {}
    /\ dependency_graph = GraphOf(code_macros)
    /\ ~is_cyclic_directed(dependency_graph)

\* C12: within a document, the working text of the expander changes, a
\* substitution is counted or the output file is written only when the
\* extraction and the graph of the document are complete and the graph has
\* no cycle; the file is written only when no invocation is left to expand
\* and it did not exist, and once it exists nothing more is expanded or
\* written for the document.
C12_StagesOrdered ==
    [][/\ (di' = di /\ (steps' > steps \/ output' # output \/ files' # files))
              => StagesDone
       /\ files' # files =>
              /\ ~macro_re_captures(output, 1).ok
              /\ di \notin DOMAIN files
              /\ files' = (di :> output) @@ files
       /\ (di' = di /\ di \in DOMAIN files) =>
              /\ files' = files
              /\ output' = output
              /\ steps' = steps
              /\ pc' \in {"main", "exit"}]_vars

\* the case of C12 has happened: a document went through all the stages,
\* substitutions included, and its output is written
C12_Witness ==
    /\ pc = "main"
    /\ Written
    /\ steps > 0
    /\ StagesDone

\* C13: every fragment stored in the macro table has a name that is not
\* empty and contains neither '<' nor '>'.
C13_NameWellFormed ==
    \A n \in DOMAIN code_macros :
        /\ n # ""
        /\ \A i \in 1..Len(n) : Ch(n, i) \notin {"<", ">"}

\* C14: the way the processing of a document ends, the failure or the text
\* written, is the one value that the document determines, in whatever
\* order the graph builder visits the fragments of the table.
C14_Deterministic == Ended => StateOutcome = Outcome(doc)

\* the case of C14 has happened: the table has a fragment with an undefined
\* invocation and others without, the graph builder visited one of the
\* others first and has yet others left
C14_Witness ==
    /\ pc = "panicked"
    /\ panic = "UndefinedFragment"
    /\ dependency_graph # {}
    /\ todo # {}
    /\ \E n \in DOMAIN code_macros : ~Resolved(code_macros, n)
    /\ \E n \in DOMAIN code_macros : Resolved(code_macros, n)

\* C15: once graph building has completed without an unresolved invocation,
\* every name the expander looks up is in the macro table, and the run never
\* fails with 'a macro was used, but not defined'.
C15_LookupNeverFails ==
    /\ panic # "UsedNotDefined"
    /\ pc = "expand" =>
           (macro_re_captures(output, 1).ok =>
                macro_re_captures(output, 1).g2 \in DOMAIN code_macros)

\* C16: every substitution of the expander inserts a fragment that an edge
\* of the reference graph leads to, and the invocations the expander will
\* find in the indented, re-terminated body it inserts are exactly those
\* the graph builder found in the body of that fragment.
C16_SubstitutionsFollowEdges ==
    [][steps' > steps =>
           LET m == macro_re_captures(output, 1)
           IN  /\ \E e \in dependency_graph : e[2] = code_macros[m.g2].uuid
               /\ macro_re_captures_iter(Replacement(code_macros, m), 1)
                      = Invocations(code_macros, m.g2)]_vars

\* the lines of a body, each after units times 4 spaces and terminated
RECURSIVE IndentedBody(_, _, _)
IndentedBody(lines, i, units) ==
    IF i > Len(lines) THEN ""
    ELSE Repeat(" ", 4 * units) \o lines[i] \o "\n" \o IndentedBody(lines, i + 1, units)

\* C17: one substitution step replaces the whole invocation line, its
\* leading spaces and its terminator included, by the lines of the invoked
\* body, each prefixed with floor(s / 4) times 4 spaces, s being the number
\* of leading spaces of the invocation line; the text before and after the
\* line stays as it is.
C17_WholeLineReplaced ==
    [][steps' > steps =>
           LET m == macro_re_captures(output, 1)
               s == LeadingSpaces(SubSeq(output, m.start, m.end - 1))
           IN  output' = SubSeq(output, 1, m.start - 1)
                             \o IndentedBody(StrLines(code_macros[m.g2].content), 1, s \div 4)
                             \o SubSeq(output, m.end, Len(output))]_vars

\* the current event is a text segment of a designated block that fails
\* the header pattern or defines a name the table already holds
NoNewFragment ==
    /\ ei <= Len(doc)
    /\ doc[ei].kind = "Text"
    /\ in_rust_code_block
    /\ \/ ~MACRO_IDENT_RE(doc[ei].arg).ok
       \/ MACRO_IDENT_RE(doc[ei].arg).g2 \in DOMAIN code_macros

\* C18: while a document is processed, an entry of the macro table is never
\* changed or removed once stored; a segment that fails the header pattern
\* and a redefinition leave the table as it is; after extraction, during
\* graph building and expansion, the table does not change at all.
C18_WriteOnce ==
    [][di' = di =>
           /\ \A n \in DOMAIN code_macros :
                  n \in DOMAIN code_macros' /\ code_macros'[n] = code_macros[n]
           /\ (pc = "extract" /\ NoNewFragment) => code_macros' = code_macros
           /\ pc # "extract" => code_macros' = code_macros]_vars

\* the case of C18 has happened: a redefinition was rejected during the
\* extraction, and the document went through graph building and expansion
C18_Witness ==
    /\ pc = "write"
    /\ steps > 0
    /\ uuid > Cardinality(DOMAIN code_macros)

\* the position of the first text segment of document d, in a designated
\* block, whose header names n
FirstDefinition(d, n) ==
    Least({i \in 1..Len(d) : /\ d[i].kind = "Text"
                             /\ InDesignatedBlock(d, i)
                             /\ MACRO_IDENT_RE(d[i].arg).ok
                             /\ MACRO_IDENT_RE(d[i].arg).g2 = n})

\* the positions at which pat occurs in s
Occurrences(s, pat) == {j \in 1..Len(s) : At(s, j, pat)}

\* C19: the body stored for a fragment n is the text of the segment that
\* defined it with every occurrence of the literal header "<<n>>=" replaced
\* by n, later occurrences included, so that the body begins with the
\* comment marker followed by the bare name.
C19_HeaderReplaced ==
    di >= 1 =>
        \A n \in DOMAIN code_macros :
            LET text == doc[FirstDefinition(doc, n)].arg
                content == code_macros[n].content
            IN  /\ content = StrReplace(text, "<<" \o n \o ">>=", n)
                /\ At(content, 1, "//")
                /\ At(content, SkipWhile(content, 3, Whitespace), n)

\* the case of C19 has happened: the table holds a fragment whose segment
\* repeats the header after the header line
C19_Witness ==
    /\ Extracted
    /\ \E n \in DOMAIN code_macros :
           Cardinality(Occurrences(doc[FirstDefinition(doc, n)].arg, "<<" \o n \o ">>=")) >= 2

\* C20: after the extraction of a document, two fragments stored under
\* different names have different ordinals, also when redefinitions were
\* rejected in between.
C20_DistinctOrdinals ==
    Extracted =>
        \A n1, n2 \in DOMAIN code_macros :
            n1 # n2 => code_macros[n1].uuid # code_macros[n2].uuid

\* the case of C20 has happened: the table holds two fragments or more, and
\* one of them was stored after a redefinition had been rejected
C20_Witness ==
    /\ Extracted
    /\ Cardinality(DOMAIN code_macros) >= 2
    /\ \E n \in DOMAIN code_macros : code_macros[n].uuid >= Cardinality(DOMAIN code_macros)

====
